---- MODULE Spec2Model ----
(***************************************************************************)
(* Client-side task state of todo-service: the two Dashboard components    *)
(* (src/src/pages/Dashboard.tsx, which waits for the remote store before   *)
(* touching the local collection, and src/unnamed/part_002, which applies  *)
(* toggles and deletes optimistically), the remote store they talk to and  *)
(* the push channel that reports the store's changes back; and the archive *)
(* page (src/src/pages/Archive.tsx) with its activity histogram.           *)
(***************************************************************************)
EXTENDS Integers, Sequences, FiniteSets, TLC

\* ------------------------------------------------------------------ bounds
MaxId == 2          \* ids the remote store hands out: 1..MaxId
MaxNow == 1         \* the clock runs over 0..MaxNow
MaxCalls == 2       \* remote calls in flight at once
MaxTodos == 3       \* length of the local collection
MaxEvents == 2      \* change events waiting in the push channel
MaxGroups == 4      \* rows of the remote store's groups table
MaxInputs == 2      \* inputs taken: mutations the user triggers, rejected
                    \* submits, group selections, changes of user, writes of
                    \* other sessions and other users, events the channel
                    \* delivers a second time
TicksPerDay == 1    \* clock ticks in one calendar day

\* `string | null`: the null of completed_at and deadline
NULL == -1

Ids == 1..MaxId
Groups == {1, 2}
Pages == {"Dashboard", "part_002"}
\* user ids: the first signs in when the component mounts
Users == {1, 2}
\* what the text field may hold: nothing, blanks only, a task
Texts == {"", " ", "t"}
\* Trim that leaves blanks in place
Trim_Keeps(s) == s
\* newTask.trim()
Trim(s) == IF s = " " THEN "" ELSE s
\* the groups table: the groups of a user, the default group first
GroupsOf(u) == IF u = 1 THEN Groups ELSE {3}
\* interface Group, with the user_id column of the table
Group(id, u, d) == [id |-> id, user_id |-> u, is_default |-> d]
\* the groups table when the component mounts: each user's groups, the first
\* of them the default one
SeedGroups ==
    UNION {{Group(g, u, \A h \in GroupsOf(u) : g <= h) : g \in GroupsOf(u)} :
           u \in Users}
GroupIds(gs) == {g.id : g \in gs}

\* moment(x).isSame(moment(), 'day'): both instants on one calendar day
Day(t) == t \div TicksPerDay
SameDay(a, b) == a # NULL /\ b # NULL /\ Day(a) = Day(b)

\* ---------------------------------------------------------------- deadlines
\* A deadline is counted in half hours. The datetime-local field holds a wall
\* clock reading of the user's time zone (day * SlotsPerDay + half hour of the
\* day), '' being NULL; a Date is an instant, TimezoneOffset half hours later.
SlotsPerDay == 48
TimezoneOffset == 4
\* what the field may hold: nothing, or 00:00, 00:30 or 12:00 of a day
Deadlines ==
    {NULL} \cup {d * SlotsPerDay + h : d \in 0..(Day(MaxNow) + 1), h \in {0, 1, 24}}
\* new Date(newTaskDeadline): the reading taken as local time
NewDate(v) == v + TimezoneOffset
\* the local calendar day and the local hour of a Date
LocalDay(d) == (d - TimezoneOffset) \div SlotsPerDay
getHours(d) == ((d - TimezoneOffset) % SlotsPerDay) \div 2
\* deadline.setHours(h, 0, 0, 0): the same local day at h o'clock
setHours(d, h) == LocalDay(d) * SlotsPerDay + 2 * h + TimezoneOffset
\* moment(deadline).isSame(moment().add(1, 'day'), 'day'), date-fns isTomorrow
isTomorrow(d, today) == LocalDay(d) = Day(today) + 1

\* addTodo: the deadline of newTodo, deadline?.toISOString() || null
StoredDeadline(v, today) ==
    IF v = NULL THEN NULL
    ELSE LET d == NewDate(v) IN
         IF isTomorrow(d, today) /\ getHours(d) = 0
         THEN setHours(d, 9) ELSE d

\* interface Todo, with the user_id column every row of the table carries
Todo(id, completed, completed_at, created_at, priority, group_id, archived) ==
    [id |-> id, task |-> "t", completed |-> completed,
     completed_at |-> completed_at, created_at |-> created_at,
     priority |-> priority, deadline |-> NULL, group_id |-> group_id,
     archived |-> archived, user_id |-> 1]

VARIABLES
    page,       \* which Dashboard component is mounted
    todos,      \* useState<Todo[]>: the local collection
    loading,    \* useState(true)
    processing, \* useState(false), Dashboard.tsx only
    now,        \* the wall clock
    db,         \* the remote store's todos table (rows of the current user)
    nextId,     \* the next id the remote store assigns
    load,       \* the initial select: [st, data]
    calls,      \* the mutations whose remote call is in flight
    channel,    \* change events the push channel has yet to deliver
    inputs,     \* inputs taken so far
    last,       \* the last step that wrote the collection or ended a mutation
    chain,      \* successful toggleTodo calls in a row on one task
    newTask,    \* useState(''): the text field of the form
    newTaskDeadline, \* useState(''): the datetime-local field of the form
    selectedGroup, \* useState<string | null>(null), Dashboard.tsx only
    groups,     \* useState<Group[]>([]): the local group collection
    user,       \* useAuth().user?.id
    mounted,    \* the component is on the page
    subs,       \* the channels this session holds, each with the user id it
                \* was opened under
    activityData, \* useState<ActivityData[]>([]), Archive.tsx only: count by day
    groupsTable \* the remote store's groups table

\* the form and filter state, and the session around the component
form == <<newTask, newTaskDeadline, selectedGroup, groups>>
life == <<user, mounted, subs>>

vars == <<page, todos, loading, processing, now, db, nextId, load, calls,
          channel, inputs, last, chain, form, life, activityData, groupsTable>>

\* --------------------------------------------------- collection primitives
Has(ts, id) == \E i \in DOMAIN ts : ts[i].id = id
Count(ts, id) == Cardinality({i \in DOMAIN ts : ts[i].id = id})

\* setTodos(prev => [x, ...prev])
Prepend(rec, ts) == <<rec>> \o ts

\* Remove written with splice(findIndex(...), 1): an absent id gives index -1,
\* and the last record goes
Remove_Splice(ts, id) ==
    IF \E i \in DOMAIN ts : ts[i].id = id
    THEN SelectSeq(ts, LAMBDA t : t.id # id)
    ELSE SubSeq(ts, 1, Len(ts) - 1)

\* setTodos(prev => prev.filter(todo => todo.id !== id))
Remove(ts, id) == SelectSeq(ts, LAMBDA t : t.id # id)

\* Replace written as an upsert: an absent id is added at the front
Replace_Upsert(ts, rec) ==
    IF \E i \in DOMAIN ts : ts[i].id = rec.id
    THEN [i \in DOMAIN ts |-> IF ts[i].id = rec.id THEN rec ELSE ts[i]]
    ELSE <<rec>> \o ts

\* setTodos(prev => prev.map(todo => todo.id === payload.new.id ? payload.new : todo))
Replace(ts, rec) == [i \in DOMAIN ts |-> IF ts[i].id = rec.id THEN rec ELSE ts[i]]

\* ToggleCompleted that leaves completed_at alone when the task is reopened
ToggleCompleted_KeepsStamp(ts, id, completed, at) ==
    [i \in DOMAIN ts |->
        IF ts[i].id = id
        THEN [ts[i] EXCEPT !.completed = ~completed,
                           !.completed_at = IF ~completed THEN at ELSE @]
        ELSE ts[i]]

\* { ...todo, completed: !completed, completed_at: !completed ? now : null }
ToggleCompleted(ts, id, completed, at) ==
    [i \in DOMAIN ts |->
        IF ts[i].id = id
        THEN [ts[i] EXCEPT !.completed = ~completed,
                           !.completed_at = IF ~completed THEN at ELSE NULL]
        ELSE ts[i]]

\* RevertCompleted that puts back the flag and not the timestamp
RevertCompleted_FlagOnly(ts, id, completed, at) ==
    [i \in DOMAIN ts |->
        IF ts[i].id = id THEN [ts[i] EXCEPT !.completed = completed] ELSE ts[i]]

\* part_002's rollback: { ...todo, completed: completed, completed_at: completed ? now : null }
RevertCompleted(ts, id, completed, at) ==
    [i \in DOMAIN ts |->
        IF ts[i].id = id
        THEN [ts[i] EXCEPT !.completed = completed,
                           !.completed_at = IF completed THEN at ELSE NULL]
        ELSE ts[i]]

\* { ...todo, priority: v }
SetPriority(ts, id, v) ==
    [i \in DOMAIN ts |-> IF ts[i].id = id THEN [ts[i] EXCEPT !.priority = v] ELSE ts[i]]

\* SetArchived that builds the record anew and loses its priority
SetArchived_ClearsPriority(ts, id, v) ==
    [i \in DOMAIN ts |->
        IF ts[i].id = id
        THEN [ts[i] EXCEPT !.archived = v, !.priority = FALSE]
        ELSE ts[i]]

\* { ...todo, archived: v }
SetArchived(ts, id, v) ==
    [i \in DOMAIN ts |-> IF ts[i].id = id THEN [ts[i] EXCEPT !.archived = v] ELSE ts[i]]


\* ------------------------------------------------------------------- views
\* filteredTodos that forgets isNotArchived
filteredTodos_Archived(ts, showArchived, selected, today) ==
    SelectSeq(ts, LAMBDA t :
        IF showArchived
        THEN t.archived
        ELSE /\ (selected = NULL \/ t.group_id = selected)
             /\ (~t.completed \/ (t.completed /\ SameDay(t.completed_at, today))))

\* Dashboard.tsx: filteredTodos, with the filter selections as parameters
filteredTodos(ts, showArchived, selected, today) ==
    SelectSeq(ts, LAMBDA t :
        IF showArchived
        THEN t.archived
        ELSE /\ (selected = NULL \/ t.group_id = selected)
             /\ ~t.archived
             /\ (~t.completed \/ (t.completed /\ SameDay(t.completed_at, today))))

\* filteredTodos.filter(todo => !todo.completed)
activeTodos(ts, showArchived, selected, today) ==
    SelectSeq(filteredTodos(ts, showArchived, selected, today),
              LAMBDA t : ~t.completed)

\* filteredTodos.filter(todo => todo.completed)
completedTodos(ts, showArchived, selected, today) ==
    SelectSeq(filteredTodos(ts, showArchived, selected, today),
              LAMBDA t : t.completed)

\* part_002 renders every task: todos.filter(!completed) and todos.filter(completed)
P2_activeTodos(ts) == SelectSeq(ts, LAMBDA t : ~t.completed)
P2_completedTodos(ts) == SelectSeq(ts, LAMBDA t : t.completed)

\* A row of Dashboard.tsx carries its buttons only while some filter setting
\* lists it: archived rows under showArchived, the others when not completed
\* or completed today.
Rendered(t, today) ==
    t.archived \/ ~t.completed \/ SameDay(t.completed_at, today)

\* ------------------------------------------------------------ remote store
NoRec == Todo(0, FALSE, NULL, 0, FALSE, 0, FALSE)
NoLast == [op |-> "none", id |-> 0, rec |-> NoRec, pre |-> <<>>, was |-> <<>>,
           clean |-> FALSE, stale |-> FALSE]
NoChain == [id |-> 0, n |-> 0, orig |-> NoRec, at |-> 0]

\* what a step records: the collection just before it and, for the handler that
\* ends a mutation, the collection when the mutation was triggered, whether
\* nothing else has written to the collection since, and whether an UPDATE
\* event put the record of before the mutation back meanwhile
Step(op, id, rec, was, clean) ==
    [op |-> op, id |-> id, rec |-> rec, pre |-> todos, was |-> was, clean |-> clean,
     stale |-> FALSE]
Ends(op, c) == [Step(op, c.id, c.rec, c.pre, c.clean) EXCEPT !.stale = c.stale]

Row(id) == CHOOSE r \in db : r.id = id
HasRow(id) == \E r \in db : r.id = id

\* .order('priority', { ascending: false }).order('created_at', { ascending: false })
Before(a, b) ==
    \/ a.priority /\ ~b.priority
    \/ a.priority = b.priority /\ a.created_at >= b.created_at
IsOrdered(s) == \A i, j \in DOMAIN s : i < j => Before(s[i], s[j])
\* every listing of the rows the select may return (ties in any order)
Listings(rows) ==
    {s \in [1..Cardinality(rows) -> rows] :
        /\ \A r \in rows : \E i \in DOMAIN s : s[i] = r
        /\ IsOrdered(s)}

\* Archive.tsx: .order('created_at', { ascending: false })
ArchiveListings(rows) ==
    {s \in [1..Cardinality(rows) -> rows] :
        /\ \A r \in rows : \E i \in DOMAIN s : s[i] = r
        /\ \A i, j \in DOMAIN s : i < j => s[i].created_at >= s[j].created_at}

\* Archive.tsx: activityMap, the number of records by day of creation
\* (moment(todo.created_at).format('YYYY-MM-DD'))
Histogram(ts) ==
    [d \in {Day(ts[i].created_at) : i \in DOMAIN ts} |->
        Cardinality({i \in DOMAIN ts : Day(ts[i].created_at) = d})]

Event(type, rec) == [type |-> type, rec |-> rec]

\* .from('groups').select('*').eq('user_id', user?.id)
GroupRowsOf(u) == {g \in groupsTable : g.user_id = u}
\* groupsData[0].id under .order('is_default', { ascending: false }).order('name')
\* (names in the order of the ids)
DefaultGroup(gs) ==
    (CHOOSE g \in gs :
        \A h \in gs : \/ g.is_default /\ ~h.is_default
                      \/ g.is_default = h.is_default /\ g.id <= h.id).id

\* the subscription's filter: part_002 asks for user_id=eq.<user id>,
\* Dashboard.tsx for every change of the table
Admits(u, ev) == page = "Dashboard" \/ ev.rec.user_id = u
\* the store reports a change to the session when one of its channels asks
\* for it
Notify(ev) ==
    IF \E i \in DOMAIN subs : Admits(subs[i], ev)
    THEN Append(channel, ev) ELSE channel

\* the row an update call writes: .update({...}).eq('id', id)
Updated(r, c) ==
    CASE c.kind = "toggleTodo" ->
            [r EXCEPT !.completed = ~c.arg,
                      !.completed_at = IF ~c.arg THEN c.at ELSE NULL]
      [] c.kind = "togglePriority" -> [r EXCEPT !.priority = ~c.arg]
      [] c.kind = "toggleArchive" -> [r EXCEPT !.archived = ~c.arg]

Call(kind, rec, arg) ==
    [kind |-> kind, id |-> rec.id, arg |-> arg, at |-> now, st |-> "sent",
     rec |-> rec, pre |-> todos, clean |-> TRUE, stale |-> FALSE]

\* every other mutation in flight has seen the collection change under it
Dirty(cs) == [i \in DOMAIN cs |-> [cs[i] EXCEPT !.clean = FALSE]]
\* an event was applied under the mutations in flight: an UPDATE that carries
\* the record a toggle started from leaves that toggle with a stale record
Overtaken(cs, ev) ==
    [i \in DOMAIN cs |->
        [cs[i] EXCEPT !.clean = FALSE,
                      !.stale = @ \/ (/\ ev.type = "UPDATE"
                                      /\ cs[i].kind \in {"toggleTodo", "togglePriority",
                                                         "toggleArchive"}
                                      /\ ev.rec = cs[i].rec
                                      /\ Has(todos, ev.rec.id))]]
\* Drop that sends a failed call once more
Drop_Resend(cs, k) ==
    IF cs[k].st = "error"
    THEN [cs EXCEPT ![k].st = "sent"]
    ELSE [i \in 1..(Len(cs) - 1) |-> IF i < k THEN cs[i] ELSE cs[i + 1]]

\* the handler has run to its end
Drop(cs, k) == [i \in 1..(Len(cs) - 1) |-> IF i < k THEN cs[i] ELSE cs[i + 1]]


\* ----------------------------------------------------------- initial state
\* rows the store may hold when the component mounts
SeedRows ==
    {Todo(1, FALSE, NULL, 0, FALSE, 1, FALSE),
     Todo(1, TRUE, 0, 0, TRUE, 2, FALSE),
     Todo(1, TRUE, 0, 0, FALSE, 1, TRUE)}

Init ==
    /\ page \in Pages
    /\ todos = <<>>
    /\ loading = TRUE
    /\ processing = FALSE
    /\ now = 0
    /\ \E rows \in {{}} \cup {{r} : r \in SeedRows} :
          /\ db = rows
          /\ nextId = Cardinality(rows) + 1
    /\ load = [st |-> "sent", data |-> <<>>, groups |-> {}, user |-> 1,
               sel |-> NULL]
    /\ calls = <<>>
    /\ channel = <<>>
    /\ inputs = 0
    /\ last = NoLast
    /\ chain = NoChain
    /\ newTask = ""
    /\ newTaskDeadline = NULL
    /\ selectedGroup = NULL
    /\ groups = {}
    /\ user = 1
    /\ mounted = TRUE
    /\ subs = <<1>>
    /\ activityData = Histogram(<<>>)
    /\ groupsTable = SeedGroups

\* ------------------------------------------------------------ initial load
\* the store answers the selects (.eq('user_id', user?.id)) with the user's
\* groups and rows at that moment; part_002 asks for the rows only
LoadExec ==
    /\ load.st = "sent"
    /\ \E s \in Listings({r \in db : r.user_id = load.user}) :
          load' = [load EXCEPT !.st = "ok", !.data = s,
                               !.groups = IF page = "Dashboard"
                                          THEN GroupRowsOf(load.user) ELSE {}]
    /\ UNCHANGED <<page, activityData, groupsTable, form, life, todos, loading, processing, now, db, nextId, calls,
                   channel, last, chain, inputs>>

\* a select comes back with { error }: in Dashboard.tsx the one of groups
\* ("groupsError", nothing was fetched) or the one of todos ("error", the
\* groups were); in part_002 the only one
LoadFail ==
    /\ load.st = "sent"
    /\ \/ load' = [load EXCEPT !.st = "error",
                                !.groups = IF page = "Dashboard"
                                           THEN GroupRowsOf(load.user) ELSE {}]
       \/ page = "Dashboard" /\ load' = [load EXCEPT !.st = "groupsError"]
    /\ UNCHANGED <<page, activityData, groupsTable, form, life, todos, loading, processing, now, db, nextId, calls,
                   channel, last, chain, inputs>>

\* fetchData / fetchTodos after the await: setTodos(data || []), setLoading(false)
fetchData ==
    /\ mounted
    /\ load.st \in {"ok", "error", "groupsError"}
    /\ IF load.st = "ok"
       THEN /\ todos' = load.data
            /\ calls' = Dirty(calls)
            /\ last' = Step("fetchData", 0, NoRec, <<>>, FALSE)
            /\ chain' = NoChain
       ELSE UNCHANGED <<todos, calls, last, chain>>
    /\ IF page = "Dashboard" /\ load.st \in {"ok", "error"}
       THEN /\ groups' = load.groups
            /\ selectedGroup' = IF load.groups # {} /\ load.sel = NULL
                                 THEN DefaultGroup(load.groups)
                                 ELSE selectedGroup
       ELSE UNCHANGED <<groups, selectedGroup>>
    /\ loading' = FALSE
    /\ load' = [load EXCEPT !.st = IF load.st = "ok" THEN "done" ELSE "failed",
                            !.data = <<>>, !.groups = {}]
    /\ UNCHANGED <<page, activityData, groupsTable, newTask, newTaskDeadline, life, processing, now, db,
                   nextId, channel, inputs>>

\* ------------------------------------------------------------ push channel
\* the postgres_changes handler
OnChange(ts, ev) ==
    CASE ev.type = "INSERT" -> Prepend(ev.rec, ts)
      [] ev.type = "DELETE" -> Remove(ts, ev.rec.id)
      [] ev.type = "UPDATE" -> Replace(ts, ev.rec)

\* Handle that skips an event when the next one is about the same task
Handle_Coalesces(ev) ==
    /\ ev.type = "INSERT" => Len(todos) < MaxTodos
    /\ todos' = IF Len(channel) > 1 /\ channel[2].rec.id = ev.rec.id
                THEN todos ELSE OnChange(todos, ev)
    /\ calls' = Overtaken(calls, ev)
    /\ last' = Step(ev.type, ev.rec.id, ev.rec, <<>>, FALSE)
    /\ chain' = NoChain

Handle(ev) ==
    /\ ev.type = "INSERT" => Len(todos) < MaxTodos
    /\ todos' = OnChange(todos, ev)
    /\ calls' = Overtaken(calls, ev)
    /\ last' = Step(ev.type, ev.rec.id, ev.rec, <<>>, FALSE)
    /\ chain' = NoChain

\* the channel hands over its oldest event
Deliver ==
    /\ mounted /\ subs # <<>>
    /\ channel # <<>>
    /\ Handle(Head(channel))
    /\ channel' = Tail(channel)
    /\ UNCHANGED <<page, activityData, groupsTable, form, life, loading, processing, now, db, nextId, load, inputs>>

\* at-least-once delivery: the oldest event is handed over and kept once more
Redeliver ==
    /\ mounted /\ subs # <<>>
    /\ channel # <<>>
    /\ inputs < MaxInputs
    /\ Handle(Head(channel))
    /\ inputs' = inputs + 1
    /\ UNCHANGED <<page, activityData, groupsTable, form, life, loading, processing, now, db, nextId, load, channel>>

\* ------------------------------------------------------------ remote store
\* .insert([newTodo]).select().single(): the row gets its id, completed_at is null
ServerInsert(k) ==
    /\ calls[k].st = "sent" /\ calls[k].kind = "addTodo"
    /\ nextId <= MaxId /\ Len(channel) < MaxEvents
    /\ LET row == [calls[k].rec EXCEPT !.id = nextId] IN
          /\ db' = db \cup {row}
          /\ channel' = Notify(Event("INSERT", row))
          /\ calls' = [calls EXCEPT ![k].st = "ok", ![k].rec = row, ![k].id = nextId]
    /\ nextId' = nextId + 1
    /\ UNCHANGED <<page, activityData, groupsTable, form, life, todos, loading, processing, now, load, last, chain,
                   inputs>>

\* .update({...}).eq('id', id): no row with that id is no error
ServerUpdate(k) ==
    /\ calls[k].st = "sent"
    /\ calls[k].kind \in {"toggleTodo", "togglePriority", "toggleArchive"}
    /\ IF HasRow(calls[k].id)
       THEN /\ Len(channel) < MaxEvents
            /\ LET row == Updated(Row(calls[k].id), calls[k]) IN
                  /\ db' = (db \ {Row(calls[k].id)}) \cup {row}
                  /\ channel' = Notify(Event("UPDATE", row))
       ELSE UNCHANGED <<db, channel>>
    /\ calls' = [calls EXCEPT ![k].st = "ok"]
    /\ UNCHANGED <<page, activityData, groupsTable, form, life, todos, loading, processing, now, nextId, load, last,
                   chain, inputs>>

\* .delete().eq('id', id)
ServerDelete(k) ==
    /\ calls[k].st = "sent" /\ calls[k].kind = "deleteTodo"
    /\ IF HasRow(calls[k].id)
       THEN /\ Len(channel) < MaxEvents
            /\ db' = db \ {Row(calls[k].id)}
            /\ channel' = Notify(Event("DELETE", Row(calls[k].id)))
       ELSE UNCHANGED <<db, channel>>
    /\ calls' = [calls EXCEPT ![k].st = "ok"]
    /\ UNCHANGED <<page, activityData, groupsTable, form, life, todos, loading, processing, now, nextId, load, last,
                   chain, inputs>>

\* the call comes back with { error }
ServerFail(k) ==
    /\ calls[k].st = "sent"
    /\ calls' = [calls EXCEPT ![k].st = "error"]
    /\ UNCHANGED <<page, activityData, groupsTable, form, life, todos, loading, processing, now, db, nextId, load,
                   channel, last, chain, inputs>>

\* a session of user u other than this one writes to the table
TableInsert(u) ==
    /\ inputs < MaxInputs /\ nextId <= MaxId /\ Len(channel) < MaxEvents
    /\ \E g \in GroupsOf(u) :
          LET row == [Todo(nextId, FALSE, NULL, now, FALSE, g, FALSE)
                         EXCEPT !.user_id = u] IN
             /\ db' = db \cup {row}
             /\ channel' = Notify(Event("INSERT", row))
    /\ nextId' = nextId + 1
    /\ inputs' = inputs + 1
    /\ UNCHANGED <<page, activityData, groupsTable, form, life, todos, loading, processing, now, load, calls, last,
                   chain>>

TableUpdate(u) ==
    /\ inputs < MaxInputs /\ Len(channel) < MaxEvents
    /\ \E r \in {x \in db : x.user_id = u},
          kind \in {"toggleTodo", "togglePriority", "toggleArchive"} :
          LET arg == CASE kind = "toggleTodo" -> r.completed
                       [] kind = "togglePriority" -> r.priority
                       [] kind = "toggleArchive" -> r.archived
              row == Updated(r, [kind |-> kind, arg |-> arg, at |-> now]) IN
             /\ db' = (db \ {r}) \cup {row}
             /\ channel' = Notify(Event("UPDATE", row))
    /\ inputs' = inputs + 1
    /\ UNCHANGED <<page, activityData, groupsTable, form, life, todos, loading, processing, now, nextId, load,
                   calls, last, chain>>

TableDelete(u) ==
    /\ inputs < MaxInputs /\ Len(channel) < MaxEvents
    /\ \E r \in {x \in db : x.user_id = u} :
          /\ db' = db \ {r}
          /\ channel' = Notify(Event("DELETE", r))
    /\ inputs' = inputs + 1
    /\ UNCHANGED <<page, activityData, groupsTable, form, life, todos, loading, processing, now, nextId, load,
                   calls, last, chain>>

\* another session of the same user
ExtInsert == TableInsert(user)
ExtUpdate == TableUpdate(user)
ExtDelete == TableDelete(user)

\* a session of another user
OtherInsert == \E u \in Users \ {user} : TableInsert(u)
OtherUpdate == \E u \in Users \ {user} : TableUpdate(u)
OtherDelete == \E u \in Users \ {user} : TableDelete(u)

Tick ==
    /\ now < MaxNow
    /\ now' = now + 1
    /\ UNCHANGED <<page, activityData, groupsTable, form, life, todos, loading, processing, db, nextId, load, calls,
                   channel, last, chain, inputs>>


\* -------------------------------------------- mutations of Dashboard.tsx
\* consecutive successful toggleTodo calls on one task, counted by the handler
\* that ends the call
Chained(c) ==
    IF c.clean /\ Has(todos, c.id)
    THEN IF chain.id = c.id /\ chain.n = 1
         THEN [chain EXCEPT !.n = 2, !.at = c.at]
         ELSE [id |-> c.id, n |-> 1, orig |-> c.rec, at |-> c.at]
    ELSE NoChain

\* the form is submitted and addTodo returns at its first line: nothing is
\* written, nothing is sent (the step is recorded under the number of the input)
addTodoRejected ==
    /\ mounted
    /\ IF page = "Dashboard"
       THEN Trim(newTask) = "" \/ selectedGroup = NULL
       ELSE Trim(newTask) = ""
    /\ inputs < MaxInputs
    /\ inputs' = inputs + 1
    /\ last' = Step("addTodoRejected", inputs + 1, NoRec, todos, FALSE)
    /\ UNCHANGED <<page, activityData, groupsTable, form, life, todos, loading, processing, now, db, nextId,
                   load, calls, channel, chain>>

\* the user types into the text field: setNewTask(e.target.value)
setNewTask(v) ==
    /\ mounted /\ v # newTask
    /\ newTask' = v
    /\ UNCHANGED <<page, activityData, groupsTable, newTaskDeadline, selectedGroup, groups, life, todos,
                   loading, processing, now, db, nextId, load, calls, channel,
                   inputs, last, chain>>

\* the user picks a deadline: setNewTaskDeadline(e.target.value)
setNewTaskDeadline(v) ==
    /\ mounted /\ v # newTaskDeadline /\ inputs < MaxInputs
    /\ newTaskDeadline' = v
    /\ inputs' = inputs + 1
    /\ UNCHANGED <<page, activityData, groupsTable, newTask, selectedGroup, groups, life, todos, loading,
                   processing, now, db, nextId, load, calls, channel, last,
                   chain>>

\* a group button: setSelectedGroup(group.id === selectedGroup ? null : group.id)
setSelectedGroup(g) ==
    /\ page = "Dashboard" /\ mounted /\ g \in GroupIds(groups) /\ inputs < MaxInputs
    /\ selectedGroup' = IF g = selectedGroup THEN NULL ELSE g
    /\ inputs' = inputs + 1
    /\ UNCHANGED <<page, activityData, groupsTable, newTask, newTaskDeadline, groups, life, todos, loading,
                   processing, now, db, nextId, load, calls, channel, last, chain>>

\* addTodo up to the await: newTodo is built and sent, the collection untouched
addTodo ==
    /\ page = "Dashboard" /\ mounted /\ ~processing /\ Len(calls) < MaxCalls /\ inputs < MaxInputs
    /\ ~(Trim(newTask) = "" \/ selectedGroup = NULL)
    /\ \E p \in BOOLEAN :
          calls' = Append(calls, Call("addTodo",
                      [Todo(0, FALSE, NULL, now, p, selectedGroup, FALSE)
                          EXCEPT !.task = newTask, !.user_id = user,
                                 !.deadline = StoredDeadline(newTaskDeadline, now)],
                      newTaskDeadline))
    /\ processing' = TRUE
    /\ inputs' = inputs + 1
    /\ UNCHANGED <<page, activityData, groupsTable, form, life, todos, loading, now, db, nextId, load, channel,
                   last, chain>>

\* addTodo after the await
addTodoDone(k) ==
    /\ page = "Dashboard" /\ mounted /\ calls[k].kind = "addTodo"
    /\ calls[k].st \in {"ok", "error"}
    /\ IF calls[k].st = "ok"
       THEN /\ Len(todos) < MaxTodos
            /\ todos' = Prepend(calls[k].rec, todos)
            /\ calls' = Dirty(Drop(calls, k))
            /\ last' = Ends("addTodo", calls[k])
            /\ newTask' = ""
            /\ newTaskDeadline' = NULL
       ELSE /\ calls' = Drop(calls, k)
            /\ last' = Ends("addTodoError", calls[k])
            /\ UNCHANGED <<todos, newTask, newTaskDeadline>>
    /\ chain' = NoChain
    /\ processing' = FALSE
    /\ UNCHANGED <<page, activityData, groupsTable, selectedGroup, groups, life, loading, now, db, nextId,
                   load, channel, inputs>>

\* a button of row i is pressed: the handler runs up to its await
Press(kind, i, arg) ==
    /\ page = "Dashboard" /\ mounted /\ ~processing /\ ~loading /\ Len(calls) < MaxCalls /\ inputs < MaxInputs
    /\ Rendered(todos[i], now)
    /\ calls' = Append(calls, Call(kind, todos[i], arg))
    /\ processing' = TRUE
    /\ inputs' = inputs + 1
    /\ UNCHANGED <<page, activityData, groupsTable, form, life, todos, loading, now, db, nextId, load, channel,
                   last, chain>>

toggleTodo(i) == Press("toggleTodo", i, todos[i].completed)
toggleArchive(i) == Press("toggleArchive", i, todos[i].archived)
togglePriority(i) == Press("togglePriority", i, todos[i].priority)
deleteTodo(i) == Press("deleteTodo", i, FALSE)

\* Applied with the negation of togglePriority forgotten
Applied_PriorityAsIs(ts, c) ==
    CASE c.kind = "toggleTodo" -> ToggleCompleted(ts, c.id, c.arg, c.at)
      [] c.kind = "toggleArchive" -> SetArchived(ts, c.id, ~c.arg)
      [] c.kind = "togglePriority" -> SetPriority(ts, c.id, c.arg)
      [] c.kind = "deleteTodo" -> Remove(ts, c.id)

\* what the handler of an update or delete writes once the store said ok
Applied(ts, c) ==
    CASE c.kind = "toggleTodo" -> ToggleCompleted(ts, c.id, c.arg, c.at)
      [] c.kind = "toggleArchive" -> SetArchived(ts, c.id, ~c.arg)
      [] c.kind = "togglePriority" -> SetPriority(ts, c.id, ~c.arg)
      [] c.kind = "deleteTodo" -> Remove(ts, c.id)

\* Done with setProcessing(false) at the end of the try block, not in finally
Done_NoFinally(kind, k) ==
    /\ page = "Dashboard" /\ mounted /\ calls[k].kind = kind
    /\ calls[k].st \in {"ok", "error"}
    /\ IF calls[k].st = "ok"
       THEN /\ todos' = Applied(todos, calls[k])
            /\ calls' = Dirty(Drop(calls, k))
            /\ last' = Ends(kind, calls[k])
            /\ chain' = IF kind = "toggleTodo" THEN Chained(calls[k]) ELSE NoChain
            /\ processing' = FALSE
       ELSE /\ calls' = Drop(calls, k)
            /\ last' = Ends(kind \o "Error", calls[k])
            /\ chain' = NoChain
            /\ UNCHANGED <<todos, processing>>
    /\ UNCHANGED <<page, activityData, groupsTable, form, life, loading, now, db,
                   nextId, load, channel, inputs>>

\* the handler after the await: setTodos on success, the log line on error,
\* setProcessing(false) in either case
Done(kind, k) ==
    /\ page = "Dashboard" /\ mounted /\ calls[k].kind = kind
    /\ calls[k].st \in {"ok", "error"}
    /\ IF calls[k].st = "ok"
       THEN /\ todos' = Applied(todos, calls[k])
            /\ calls' = Dirty(Drop(calls, k))
            /\ last' = Ends(kind, calls[k])
            /\ chain' = IF kind = "toggleTodo" THEN Chained(calls[k]) ELSE NoChain
       ELSE /\ calls' = Drop(calls, k)
            /\ last' = Ends(kind \o "Error", calls[k])
            /\ chain' = NoChain
            /\ UNCHANGED todos
    /\ processing' = FALSE
    /\ UNCHANGED <<page, activityData, groupsTable, form, life, loading, now, db, nextId, load, channel, inputs>>

toggleTodoDone(k) == Done("toggleTodo", k)
toggleArchiveDone(k) == Done("toggleArchive", k)
togglePriorityDone(k) == Done("togglePriority", k)
deleteTodoDone(k) == Done("deleteTodo", k)

\* ----------------------------------------------- mutations of part_002
P2_addTodo ==
    /\ page = "part_002" /\ mounted /\ Len(calls) < MaxCalls /\ inputs < MaxInputs
    /\ Trim(newTask) # ""
    /\ \E p \in BOOLEAN :
          calls' = Append(calls, Call("addTodo",
                      [Todo(0, FALSE, NULL, now, p, 1, FALSE)
                          EXCEPT !.task = newTask, !.user_id = user,
                                 !.deadline = StoredDeadline(newTaskDeadline, now)],
                      newTaskDeadline))
    /\ inputs' = inputs + 1
    /\ UNCHANGED <<page, activityData, groupsTable, form, life, todos, loading, processing, now, db, nextId, load,
                   channel, last, chain>>

P2_addTodoDone(k) ==
    /\ page = "part_002" /\ mounted /\ calls[k].kind = "addTodo"
    /\ calls[k].st \in {"ok", "error"}
    /\ IF calls[k].st = "ok"
       THEN /\ Len(todos) < MaxTodos
            /\ todos' = Prepend(calls[k].rec, todos)
            /\ calls' = Dirty(Drop(calls, k))
            /\ last' = Ends("addTodo", calls[k])
            /\ newTask' = ""
            /\ newTaskDeadline' = NULL
       ELSE /\ calls' = Drop(calls, k)
            /\ last' = Ends("addTodoError", calls[k])
            /\ UNCHANGED <<todos, newTask, newTaskDeadline>>
    /\ chain' = NoChain
    /\ UNCHANGED <<page, activityData, groupsTable, selectedGroup, groups, life, loading, processing, now,
                   db, nextId, load, channel, inputs>>

\* the handler up to its await: the collection is written first, then the call
\* is sent (deleteTodo keeps previousTodos, the collection it started from)
P2_Press(kind, i, arg) ==
    /\ page = "part_002" /\ mounted /\ ~loading /\ Len(calls) < MaxCalls /\ inputs < MaxInputs
    /\ LET c == Call(kind, todos[i], arg) IN
          /\ todos' = Applied(todos, c)
          /\ calls' = Append(Dirty(calls), c)
          /\ last' = Step(kind, c.id, c.rec, todos, TRUE)
          /\ chain' = IF /\ kind = "toggleTodo" /\ chain.id = c.id /\ chain.n = 1
                         /\ \A k \in DOMAIN calls :
                               ~(calls[k].kind = "toggleTodo" /\ calls[k].id = c.id)
                      THEN chain ELSE NoChain
    /\ inputs' = inputs + 1
    /\ UNCHANGED <<page, activityData, groupsTable, form, life, loading, processing, now, db, nextId, load, channel>>

P2_toggleTodo(i) == P2_Press("toggleTodo", i, todos[i].completed)
P2_togglePriority(i) == P2_Press("togglePriority", i, todos[i].priority)
P2_deleteTodo(i) == P2_Press("deleteTodo", i, FALSE)

\* RolledBack that puts the deleted record back at the end of the collection
RolledBack_Appends(ts, c) ==
    CASE c.kind = "toggleTodo" -> RevertCompleted(ts, c.id, c.arg, c.at)
      [] c.kind = "togglePriority" -> SetPriority(ts, c.id, c.arg)
      [] c.kind = "deleteTodo" -> Append(ts, c.rec)

\* what the handler writes when the store said error
RolledBack(ts, c) ==
    CASE c.kind = "toggleTodo" -> RevertCompleted(ts, c.id, c.arg, c.at)
      [] c.kind = "togglePriority" -> SetPriority(ts, c.id, c.arg)
      [] c.kind = "deleteTodo" -> c.pre

\* the handler after the await: nothing on success, the rollback on error
P2_Done(kind, k) ==
    /\ page = "part_002" /\ mounted /\ calls[k].kind = kind
    /\ calls[k].st \in {"ok", "error"}
    /\ IF calls[k].st = "ok"
       THEN /\ calls' = Drop(calls, k)
            /\ chain' = IF kind = "toggleTodo" THEN Chained(calls[k]) ELSE chain
            /\ last' = Ends(kind \o "Ok", calls[k])
            /\ UNCHANGED todos
       ELSE /\ todos' = RolledBack(todos, calls[k])
            /\ calls' = Dirty(Drop(calls, k))
            /\ last' = Ends(kind \o "Error", calls[k])
            /\ chain' = NoChain
    /\ UNCHANGED <<page, activityData, groupsTable, form, life, loading, processing, now, db, nextId, load, channel,
                   inputs>>

P2_toggleTodoDone(k) == P2_Done("toggleTodo", k)
P2_togglePriorityDone(k) == P2_Done("togglePriority", k)
P2_deleteTodoDone(k) == P2_Done("deleteTodo", k)

\* ------------------------------------------------- the session's lifetime
\* channel.unsubscribe(): the channel the effect opened is released
Unsubscribed_Keeps(ss) == ss
Unsubscribed(ss) == SubSeq(ss, 1, Len(ss) - 1)

\* the component leaves the page: the effect's cleanup runs; the events still
\* on their way to the released channel are not delivered
Unmount ==
    /\ mounted
    /\ mounted' = FALSE
    /\ subs' = Unsubscribed(subs)
    /\ channel' = <<>>
    /\ UNCHANGED <<page, activityData, groupsTable, form, user, todos, loading, processing, now, db, nextId,
                   load, calls, inputs, last, chain>>

\* user?.id changes under the mounted component (once the previous load is
\* stored): the cleanup runs, then the effect again, which starts fetchData
\* (Dashboard.tsx: setLoading(true)) and opens a channel for the new id
UserChanged ==
    /\ mounted /\ inputs < MaxInputs /\ load.st \in {"done", "failed"}
    /\ \E u \in Users \ {user} :
          /\ user' = u
          /\ subs' = Append(Unsubscribed(subs), u)
          /\ load' = [st |-> "sent", data |-> <<>>, groups |-> {}, user |-> u,
                       sel |-> selectedGroup]
    /\ channel' = <<>>
    /\ loading' = IF page = "Dashboard" THEN TRUE ELSE loading
    /\ inputs' = inputs + 1
    /\ UNCHANGED <<page, activityData, groupsTable, form, mounted, todos, processing, now, db, nextId, calls,
                   last, chain>>

\* a call is answered after the component left the page: its handler's
\* setState calls have no component to write to
Abandoned(k) ==
    /\ ~mounted
    /\ calls[k].st \in {"ok", "error"}
    /\ calls' = Drop(calls, k)
    /\ UNCHANGED <<page, activityData, groupsTable, form, life, todos, loading, processing, now, db, nextId,
                   load, channel, inputs, last, chain>>

\* ------------------------------------------------------ the archive page
\* rows the store may hold when Archive.tsx mounts: every id either absent or
\* a task created on the first or the last day, archived or not
ArchiveSeedRows ==
    {Todo(id, TRUE, c, c, FALSE, 1, a) : id \in Ids, c \in {0, MaxNow}, a \in BOOLEAN}

\* Archive.tsx after its first render: it opens no channel
InitArchive ==
    /\ page = "Archive"
    /\ todos = <<>>
    /\ loading = TRUE
    /\ processing = FALSE
    /\ now = 0
    /\ \E rows \in SUBSET ArchiveSeedRows :
          /\ \A r, q \in rows : r.id = q.id => r = q
          /\ db = rows
          /\ nextId = 1 + Cardinality({n \in Ids : \E x \in rows : x.id >= n})
    /\ load = [st |-> "sent", data |-> <<>>, groups |-> {}, user |-> 1,
               sel |-> NULL]
    /\ calls = <<>>
    /\ channel = <<>>
    /\ inputs = 0
    /\ last = NoLast
    /\ chain = NoChain
    /\ newTask = ""
    /\ newTaskDeadline = NULL
    /\ selectedGroup = NULL
    /\ groups = {}
    /\ user = 1
    /\ mounted = TRUE
    /\ subs = <<>>
    /\ activityData = Histogram(<<>>)
    /\ groupsTable = SeedGroups

\* the store answers the two selects: the user's groups, and the user's rows
\* with .eq('archived', true)
Archive_LoadExec ==
    /\ page = "Archive" /\ load.st = "sent"
    /\ \E s \in ArchiveListings({r \in db : r.user_id = load.user /\ r.archived}) :
          load' = [load EXCEPT !.st = "ok", !.data = s,
                               !.groups = GroupRowsOf(load.user)]
    /\ UNCHANGED <<page, activityData, groupsTable, form, life, todos, loading, processing, now,
                   db, nextId, calls, channel, last, chain, inputs>>

\* a select comes back with { error }: the one of groups, or the one of todos
Archive_LoadFail ==
    /\ page = "Archive" /\ load.st = "sent"
    /\ \/ load' = [load EXCEPT !.st = "error", !.groups = GroupRowsOf(load.user)]
       \/ load' = [load EXCEPT !.st = "groupsError"]
    /\ UNCHANGED <<page, activityData, groupsTable, form, life, todos, loading, processing, now,
                   db, nextId, calls, channel, last, chain, inputs>>

\* fetchData after its awaits: setGroups, setTodos, setActivityData,
\* setLoading(false)
Archive_fetchData ==
    /\ page = "Archive" /\ mounted
    /\ load.st \in {"ok", "error", "groupsError"}
    /\ groups' = IF load.st = "groupsError" THEN groups ELSE load.groups
    /\ IF load.st = "ok"
       THEN /\ todos' = load.data
            /\ activityData' = Histogram(load.data)
            /\ last' = Step("fetchData", 0, NoRec, <<>>, FALSE)
       ELSE UNCHANGED <<todos, activityData, last>>
    /\ loading' = FALSE
    /\ load' = [load EXCEPT !.st = IF load.st = "ok" THEN "done" ELSE "failed",
                            !.data = <<>>, !.groups = {}]
    /\ UNCHANGED <<page, groupsTable, newTask, newTaskDeadline, selectedGroup, life,
                   processing, now, db, nextId, calls, channel, chain, inputs>>

\* the group select: setSelectedGroup(e.target.value || null)
Archive_setSelectedGroup(g) ==
    /\ page = "Archive" /\ mounted /\ g # selectedGroup /\ inputs < MaxInputs
    /\ selectedGroup' = g
    /\ inputs' = inputs + 1
    /\ UNCHANGED <<page, activityData, groupsTable, newTask, newTaskDeadline, groups, life, todos,
                   loading, processing, now, db, nextId, load, calls, channel,
                   last, chain>>

\* Archive.tsx: filteredTodos
Archive_filteredTodos(ts, selected) ==
    IF selected # NULL THEN SelectSeq(ts, LAMBDA t : t.group_id = selected) ELSE ts

\* deleteTodo up to its await; the rows are drawn once loading is over and
\* the button is disabled while processing
Archive_deleteTodo(i) ==
    /\ page = "Archive" /\ mounted /\ ~processing /\ ~loading
    /\ Len(calls) < MaxCalls /\ inputs < MaxInputs
    /\ \E j \in DOMAIN Archive_filteredTodos(todos, selectedGroup) :
          Archive_filteredTodos(todos, selectedGroup)[j] = todos[i]
    /\ calls' = Append(calls, Call("deleteTodo", todos[i], FALSE))
    /\ processing' = TRUE
    /\ inputs' = inputs + 1
    /\ UNCHANGED <<page, activityData, groupsTable, form, life, todos, loading, now, db, nextId,
                   load, channel, last, chain>>

\* deleteTodo after its await: the record is filtered out on success;
\* setProcessing(false) in either case
Archive_deleteTodoDone(k) ==
    /\ page = "Archive" /\ mounted /\ calls[k].kind = "deleteTodo"
    /\ calls[k].st \in {"ok", "error"}
    /\ IF calls[k].st = "ok"
       THEN /\ todos' = Remove(todos, calls[k].id)
            /\ last' = Ends("deleteTodo", calls[k])
       ELSE /\ last' = Ends("deleteTodoError", calls[k])
            /\ UNCHANGED todos
    /\ calls' = Drop(calls, k)
    /\ processing' = FALSE
    /\ UNCHANGED <<page, activityData, groupsTable, form, life, loading, now, db, nextId, load,
                   channel, inputs, chain>>

ArchivePage ==
    \/ Archive_LoadExec \/ Archive_LoadFail \/ Archive_fetchData
    \/ \E g \in GroupIds(groups) \cup {NULL} : Archive_setSelectedGroup(g)
    \/ \E i \in DOMAIN todos : Archive_deleteTodo(i)
    \/ \E k \in DOMAIN calls :
          ServerDelete(k) \/ ServerFail(k) \/ Archive_deleteTodoDone(k)
    \/ Tick
    \/ ExtInsert \/ ExtUpdate \/ ExtDelete

SpecArchive == InitArchive /\ [][ArchivePage]_vars

\* ------------------------------------------------------- signing in and out
\* The pages are drawn inside ProtectedRoute, which shows them only while the
\* authentication provider has a user.
\* the application starts with nobody signed in: no page is drawn
InitAuth ==
    /\ page \in Pages \cup {"Archive"}
    /\ todos = <<>>
    /\ loading = TRUE
    /\ processing = FALSE
    /\ now = 0
    /\ \E rows \in {{}} \cup {{r} : r \in SeedRows} :
          /\ db = rows
          /\ nextId = Cardinality(rows) + 1
    /\ load = [st |-> "idle", data |-> <<>>, groups |-> {}, user |-> NULL,
               sel |-> NULL]
    /\ calls = <<>>
    /\ channel = <<>>
    /\ inputs = 0
    /\ last = NoLast
    /\ chain = NoChain
    /\ newTask = ""
    /\ newTaskDeadline = NULL
    /\ selectedGroup = NULL
    /\ groups = {}
    /\ user = NULL
    /\ mounted = FALSE
    /\ subs = <<>>
    /\ activityData = Histogram(<<>>)
    /\ groupsTable = SeedGroups

\* a user signs in and the page is drawn: a new component, whose effect starts
\* fetchData and (Dashboard.tsx, part_002) opens the channel
SignIn(u) ==
    /\ ~mounted /\ user = NULL /\ calls = <<>>
    /\ user' = u
    /\ mounted' = TRUE
    /\ todos' = <<>>
    /\ loading' = TRUE
    /\ processing' = FALSE
    /\ newTask' = ""
    /\ newTaskDeadline' = NULL
    /\ selectedGroup' = NULL
    /\ groups' = {}
    /\ activityData' = Histogram(<<>>)
    /\ chain' = NoChain
    /\ load' = [st |-> "sent", data |-> <<>>, groups |-> {}, user |-> u,
                sel |-> NULL]
    /\ subs' = IF page = "Archive" THEN <<>> ELSE <<u>>
    /\ channel' = <<>>
    /\ UNCHANGED <<page, groupsTable, now, db, nextId, calls, inputs, last>>

\* SignOut under a route that keeps the page drawn: user?.id changes to
\* undefined, the effect's cleanup runs and then the effect again
SignOut_StaysMounted ==
    /\ mounted /\ user # NULL /\ inputs < MaxInputs
    /\ user' = NULL
    /\ subs' = IF page = "Archive" THEN <<>> ELSE Append(Unsubscribed(subs), NULL)
    /\ load' = [st |-> "sent", data |-> <<>>, groups |-> {}, user |-> NULL,
                sel |-> selectedGroup]
    /\ channel' = <<>>
    /\ inputs' = inputs + 1
    /\ last' = Step("signOut", 0, NoRec, todos, FALSE)
    /\ UNCHANGED <<page, activityData, groupsTable, form, mounted, todos, loading,
                   processing, now, db, nextId, calls, chain>>

\* signOut(): the user is gone, the route takes the page away and the
\* effect's cleanup runs
SignOut ==
    /\ mounted /\ user # NULL /\ inputs < MaxInputs
    /\ user' = NULL
    /\ mounted' = FALSE
    /\ subs' = Unsubscribed(subs)
    /\ channel' = <<>>
    /\ inputs' = inputs + 1
    /\ last' = Step("signOut", 0, NoRec, todos, FALSE)
    /\ UNCHANGED <<page, activityData, groupsTable, form, todos, loading, processing,
                   now, db, nextId, load, calls, chain>>

Auth ==
    \/ \E u \in Users : SignIn(u)
    \/ SignOut
    \/ \E k \in DOMAIN calls : Abandoned(k)

\* ------------------------------------------------------------ specification
\* this session alone: its load, its mutations, the store answering them and
\* the channel delivering each change once
Session ==
    \/ LoadExec \/ LoadFail \/ fetchData
    \/ Deliver
    \/ \E k \in DOMAIN calls :
          ServerInsert(k) \/ ServerUpdate(k) \/ ServerDelete(k) \/ ServerFail(k)
    \/ Tick
    \/ \E v \in Texts : setNewTask(v)
    \/ \E g \in GroupIds(groups) : setSelectedGroup(g)
    \/ addTodoRejected
    \/ addTodo
    \/ \E i \in DOMAIN todos :
          toggleTodo(i) \/ toggleArchive(i) \/ togglePriority(i) \/ deleteTodo(i)
    \/ \E k \in DOMAIN calls :
          \/ addTodoDone(k) \/ toggleTodoDone(k) \/ toggleArchiveDone(k)
          \/ togglePriorityDone(k) \/ deleteTodoDone(k)
    \/ P2_addTodo
    \/ \E i \in DOMAIN todos :
          P2_toggleTodo(i) \/ P2_togglePriority(i) \/ P2_deleteTodo(i)
    \/ \E k \in DOMAIN calls :
          \/ P2_addTodoDone(k) \/ P2_toggleTodoDone(k)
          \/ P2_togglePriorityDone(k) \/ P2_deleteTodoDone(k)

\* what the rest of the world adds: other sessions' writes, repeated deliveries
Others == ExtInsert \/ ExtUpdate \/ ExtDelete \/ Redeliver

Next == Session \/ Others

Spec == Init /\ [][Next]_vars

SpecSession == Init /\ [][Session]_vars

\* ------------------------------------------------------------- addGroup
\* addGroup that asks for a default group
NewGroup_Default(u) == Group(0, u, TRUE)

\* the row addGroup inserts: { name, user_id: user?.id, is_default: false }
NewGroup(u) == Group(0, u, FALSE)

\* addGroup up to its await, with the name typed into the field
addGroup(name) ==
    /\ page = "Dashboard" /\ mounted /\ ~processing
    /\ Len(calls) < MaxCalls /\ inputs < MaxInputs
    /\ Trim(name) # ""
    /\ calls' = Append(calls, Call("addGroup", NewGroup(user), FALSE))
    /\ processing' = TRUE
    /\ inputs' = inputs + 1
    /\ UNCHANGED <<page, activityData, groupsTable, form, life, todos, loading, now,
                   db, nextId, load, channel, last, chain>>

\* .from('groups').insert([...]).select().single(): the row gets its id
ServerInsertGroup(k) ==
    /\ calls[k].st = "sent" /\ calls[k].kind = "addGroup"
    /\ Cardinality(groupsTable) < MaxGroups
    /\ LET row == [calls[k].rec EXCEPT !.id = Cardinality(groupsTable) + 1] IN
          /\ groupsTable' = groupsTable \cup {row}
          /\ calls' = [calls EXCEPT ![k].st = "ok", ![k].rec = row, ![k].id = row.id]
    /\ UNCHANGED <<page, activityData, form, life, todos, loading, processing, now,
                   db, nextId, load, channel, last, chain, inputs>>

\* addGroup after its await: setGroups(prev => [...prev, data]) on success,
\* setProcessing(false) in either case
addGroupDone(k) ==
    /\ page = "Dashboard" /\ mounted /\ calls[k].kind = "addGroup"
    /\ calls[k].st \in {"ok", "error"}
    /\ IF calls[k].st = "ok"
       THEN /\ groups' = groups \cup {calls[k].rec}
            /\ last' = Step("addGroup", calls[k].id, NoRec, calls[k].pre, calls[k].clean)
       ELSE /\ last' = Step("addGroupError", 0, NoRec, calls[k].pre, calls[k].clean)
            /\ UNCHANGED groups
    /\ calls' = Drop(calls, k)
    /\ processing' = FALSE
    /\ UNCHANGED <<page, activityData, groupsTable, newTask, newTaskDeadline,
                   selectedGroup, life, todos, loading, now, db, nextId, load,
                   channel, inputs, chain>>

\* the session with the rest of the form in use
FormInput ==
    \/ \E v \in Deadlines : setNewTaskDeadline(v)
    \/ \E name \in Texts : addGroup(name)
    \/ \E k \in DOMAIN calls : ServerInsertGroup(k) \/ addGroupDone(k)

SpecForm == Init /\ [][Session \/ FormInput]_vars

\* the session from mount to teardown, among the sessions of other users
Lifetime ==
    \/ Unmount \/ UserChanged
    \/ \E k \in DOMAIN calls : Abandoned(k)
    \/ OtherInsert \/ OtherUpdate \/ OtherDelete

SpecLifetime == Init /\ [][Session \/ Lifetime]_vars

\* Dashboard.tsx with its whole form, part_002 and Archive.tsx, each from its
\* first render
SpecPages ==
    (Init \/ InitArchive)
        /\ [][\/ page \in Pages /\ (Session \/ FormInput)
              \/ page = "Archive" /\ ArchivePage]_vars

\* the pages from the first sign-in on
SpecAuth ==
    InitAuth /\ [][\/ page \in Pages /\ Session
                   \/ page = "Archive" /\ ArchivePage
                   \/ Auth]_vars


\* ================================================================== claims
ErrorOps == {"addTodoError", "toggleTodoError", "toggleArchiveError",
             "togglePriorityError", "deleteTodoError"}

\* C1: the local collection never holds two records with the same id.
C1_UniqueIds == \A id \in Ids : Count(todos, id) <= 1

\* C2: when a mutation's remote call fails and nothing else wrote to the
\* collection since the mutation was triggered, the collection after the
\* failure handler equals the collection just before the mutation.
C2_RollbackRestores ==
    (last.op \in ErrorOps /\ last.clean) => todos = last.was


\* C3 (as claimed): two consecutive successful toggleTodo calls on a task give
\* back the completed and completed_at it had before the first.
C3_RoundTrip ==
    chain.n = 2 =>
        \A i \in DOMAIN todos :
            todos[i].id = chain.id =>
                /\ todos[i].completed = chain.orig.completed
                /\ todos[i].completed_at = chain.orig.completed_at

\* C3 (amended): two consecutive successful toggleTodo calls give back
\* completed; completed_at is null again for a task that started open, and is
\* the time of the second call for a task that started completed.
C3_RoundTripAmended ==
    chain.n = 2 =>
        \A i \in DOMAIN todos :
            todos[i].id = chain.id =>
                /\ todos[i].completed = chain.orig.completed
                /\ todos[i].completed_at =
                      IF chain.orig.completed THEN chain.at ELSE NULL

C3_Witness ==
    /\ chain.n = 2 /\ Has(todos, chain.id)
    /\ chain.orig.completed /\ chain.at # chain.orig.completed_at

\* the collection shows what mutation c intends
Reflects(c) ==
    CASE c.kind = "addTodo" ->
            /\ todos # <<>>
            /\ [todos[1] EXCEPT !.id = c.rec.id] = c.rec
            /\ Tail(todos) = c.pre
      [] c.kind = "toggleTodo" ->
            /\ Has(todos, c.id)
            /\ \A i \in DOMAIN todos :
                  todos[i].id = c.id =>
                      /\ todos[i].completed = ~c.arg
                      /\ (todos[i].completed_at # NULL) = ~c.arg
      [] c.kind = "togglePriority" ->
            /\ Has(todos, c.id)
            /\ \A i \in DOMAIN todos : todos[i].id = c.id => todos[i].priority = ~c.arg
      [] c.kind = "toggleArchive" ->
            /\ Has(todos, c.id)
            /\ \A i \in DOMAIN todos : todos[i].id = c.id => todos[i].archived = ~c.arg
      [] c.kind = "deleteTodo" -> ~Has(todos, c.id)

\* the handlers that write to the collection before their await
Optimistic(c) ==
    page = "part_002" /\ c.kind \in {"toggleTodo", "togglePriority", "deleteTodo"}

C5_DeleteRollback ==
    (last.op = "deleteTodoError" /\ (page = "part_002" \/ last.clean)) =>
        \A i \in DOMAIN last.was :
            last.was[i].id = last.id =>
                i \in DOMAIN todos /\ todos[i] = last.was[i]

C5_Witness ==
    /\ page = "part_002" /\ last.op = "deleteTodoError"
    /\ ~Has(last.pre, last.id) /\ Has(todos, last.id)
    /\ Len(last.was) >= 2 /\ last.was[1].id = last.id

\* C6: removing an id the collection does not hold (a DELETE event after the
\* local removal or delivered again, a local removal after the event) leaves
\* the collection as it was, and removing an id twice is removing it once.
C6_RemoveIdempotent ==
    /\ (last.op \in {"DELETE", "deleteTodo"} /\ ~Has(last.pre, last.id)) =>
           todos = last.pre
    /\ \A id \in Ids : Remove(Remove(todos, id), id) = Remove(todos, id)

C6_Witness ==
    /\ last.op = "DELETE" /\ ~Has(last.pre, last.id)
    /\ last.pre # <<>> /\ todos = last.pre

\* C7: every record of the collection has completed_at set exactly when it is
\* completed, in every state this session's mutations and handlers reach.
C7_CompletedIffStamp ==
    \A i \in DOMAIN todos : todos[i].completed = (todos[i].completed_at # NULL)

C7_Witness ==
    /\ last.op \in {"toggleTodo", "toggleTodoError"}
    /\ \E i \in DOMAIN todos :
          todos[i].id = last.id /\ todos[i].completed /\ ~last.rec.completed

\* C8: under any one group filter no task is listed twice across Active,
\* Completed-today and Archived, and every open, unarchived task of the
\* filter's group is listed in Active and nowhere else.
C8_ViewPartition ==
    \A g \in Groups \cup {NULL} :
        LET active == activeTodos(todos, FALSE, g, now)
            done == completedTodos(todos, FALSE, g, now)
            archive == filteredTodos(todos, TRUE, g, now)
        IN  /\ \A id \in Ids : Count(active \o done \o archive, id) <= 1
            /\ \A i \in DOMAIN todos :
                  (/\ ~todos[i].archived /\ ~todos[i].completed
                   /\ (g = NULL \/ todos[i].group_id = g)) =>
                      /\ Has(active, todos[i].id)
                      /\ ~Has(done, todos[i].id)
                      /\ ~Has(archive, todos[i].id)

\* C9: an INSERT event for an id the collection holds replaces that record and
\* leaves one record with the id.
C9_InsertUpserts ==
    (last.op = "INSERT" /\ Has(last.pre, last.id)) =>
        /\ Count(todos, last.id) = 1
        /\ \E i \in DOMAIN todos : todos[i] = last.rec

\* C10 (as claimed): after an UPDATE event the collection holds the event's
\* record, whether or not it held the id before.
C10_UpdateUpserts ==
    last.op = "UPDATE" => \E i \in DOMAIN todos : todos[i] = last.rec

\* C10 (amended): an UPDATE event replaces every record that has the event's
\* id by the event's record and touches nothing else; when no record has the
\* id the collection is unchanged and the record is not inserted.
C10_UpdateReplaces ==
    last.op = "UPDATE" =>
        /\ Len(todos) = Len(last.pre)
        /\ \A i \in DOMAIN todos :
              todos[i] = IF last.pre[i].id = last.id THEN last.rec ELSE last.pre[i]

C10_Witness ==
    /\ last.op = "UPDATE" /\ ~Has(last.pre, last.id)
    /\ last.pre # <<>> /\ todos = last.pre

\* the toggled field of record t shows what the toggle that started from record
\* rec set out to write
Toggled(kind, t, rec) ==
    CASE kind = "toggleTodo" ->
            /\ t.completed = ~rec.completed
            /\ (t.completed_at # NULL) = ~rec.completed
      [] kind = "togglePriority" -> t.priority = ~rec.priority
      [] kind = "toggleArchive" -> t.archived = ~rec.archived

\* C11: when an UPDATE event carrying the record of before a toggle was applied
\* while the toggle's call was in flight, the record holds the toggled value
\* again once the handler has seen the call succeed.
C11_Reasserted ==
    \A kind \in {"toggleTodo", "togglePriority", "toggleArchive"} :
        (last.stale /\ last.op \in {kind, kind \o "Ok"}) =>
            \A i \in DOMAIN todos :
                todos[i].id = last.id => Toggled(kind, todos[i], last.rec)

\* C12: addTodo with an empty or blank text, or (Dashboard.tsx) with no group
\* selected, returns before anything happens: the collection, the form, the
\* processing flag and the calls in flight are as they were and the store is
\* not asked; a call to insert is only ever sent from a form with a text and a
\* group; and no record anywhere has an empty or blank text.
C12_RejectedBeforeAnything ==
    /\ [][(last'.op = "addTodoRejected" /\ last' # last) =>
              /\ newTask \in {"", " "} \/ (page = "Dashboard" /\ selectedGroup = NULL)
              /\ UNCHANGED <<todos, form, processing, loading, calls, db, channel>>]_vars
    /\ [][(Len(calls') > Len(calls) /\ calls'[Len(calls')].kind = "addTodo") =>
              /\ newTask \notin {"", " "}
              /\ page = "Dashboard" => selectedGroup # NULL
              /\ calls'[Len(calls')].rec.task = newTask]_vars
    /\ [](/\ \A i \in DOMAIN todos : todos[i].task \notin {"", " "}
          /\ \A r \in db : r.task \notin {"", " "}
          /\ \A k \in DOMAIN calls : calls[k].rec.task \notin {"", " "})

C12_Witness ==
    /\ last.op = "addTodoRejected" /\ newTask = " " /\ todos # <<>>
    /\ page = "Dashboard" /\ selectedGroup # NULL

\* C13: after the failure handler of a mutation the component's state shows
\* the failure: it is not the state the mutation started from. (The handlers
\* write todos and processing only; no state of the component holds an error.)
C13_FailureSurfaced ==
    (last.op \in ErrorOps /\ last.clean) => (todos # last.was \/ processing)

\* remote calls waiting for the store's answer
Sent(cs) == Cardinality({k \in DOMAIN cs : cs[k].st = "sent"})

\* C14: a remote call is sent only in the step in which the user triggers a
\* mutation, and one per trigger; a call the store answered (ok or error) is
\* never sent again: the handler ends and the call is gone.
C14_OneCallNoRetry ==
    [][/\ Sent(calls') > Sent(calls) =>
             /\ inputs' = inputs + 1
             /\ Len(calls') = Len(calls) + 1
             /\ Sent(calls') = Sent(calls) + 1
             /\ SubSeq(calls', 1, Len(calls)) \in {calls, Dirty(calls)}
       /\ Len(calls') < Len(calls) =>
             /\ Len(calls') = Len(calls) - 1
             /\ Sent(calls') = Sent(calls)]_vars

C14_Witness ==
    /\ last.op \in {"toggleTodoError", "deleteTodoError"} /\ calls = <<>>
    /\ inputs = 1 /\ ~processing

EventOps == {"INSERT", "UPDATE", "DELETE"}

\* C15: the session holds at most one channel, the one opened under the
\* current user id; teardown releases it (none is left once the component is
\* gone); a push event is applied only to the mounted component through that
\* channel, and nothing writes the collection after the component is gone.
C15_ReleasedOnTeardown ==
    /\ [](/\ Len(subs) <= 1
          /\ mounted => subs = <<user>>
          /\ ~mounted => subs = <<>>)
    /\ [][(last' # last /\ last'.op \in EventOps) =>
              mounted /\ subs = <<user>> /\ channel # <<>>]_vars
    /\ [][~mounted => (todos' = todos /\ channel' = channel)]_vars
    /\ [][subs' # subs => channel' = <<>>]_vars

C15_Witness ==
    /\ ~mounted /\ subs = <<>> /\ todos # <<>>
    /\ \E r \in db : r.user_id = user /\ ~Has(todos, r.id)

\* C16: an event for a task of another user leaves the collection as it is.
C16_OwnEventsOnly ==
    [][(last' # last /\ last'.op \in EventOps /\ last'.rec.user_id # user) =>
          todos' = todos]_vars

\* C17: an event leaves the channel only as the oldest one and by being
\* applied, and a step that applies an event applies the oldest one, whole and
\* alone, to the collection as it stands: none is dropped, merged or
\* overtaken.
C17_ArrivalOrder ==
    /\ [][Len(channel') < Len(channel) =>
              /\ channel' = Tail(channel)
              /\ last'.op = Head(channel).type /\ last'.rec = Head(channel).rec
              /\ todos' = OnChange(todos, Head(channel))]_vars
    /\ [][(last' # last /\ last'.op \in EventOps) =>
              /\ channel # <<>> /\ channel' \in {channel, Tail(channel)}
              /\ last'.op = Head(channel).type /\ last'.rec = Head(channel).rec
              /\ last'.pre = todos
              /\ todos' = OnChange(todos, Head(channel))]_vars

C17_Witness ==
    /\ last.op = "INSERT" /\ Has(todos, last.id)
    /\ channel # <<>> /\ Head(channel).type = "UPDATE"
    /\ Head(channel).rec.id = last.id

\* C18: the lists the component renders (Active and Completed-today under the
\* selected group; part_002's two lists) have every priority task before every
\* other one and, among tasks of equal priority, the later created first.
C18_ViewsSorted ==
    IF page = "Dashboard"
    THEN /\ IsOrdered(activeTodos(todos, FALSE, selectedGroup, now))
         /\ IsOrdered(completedTodos(todos, FALSE, selectedGroup, now))
    ELSE /\ IsOrdered(P2_activeTodos(todos))
         /\ IsOrdered(P2_completedTodos(todos))

\* the positions of ts that list s keeps, in order
Kept(ts, keep(_)) ==
    LET F[n \in 0..Len(ts)] ==
            IF n = 0 THEN <<>>
            ELSE IF keep(ts[n]) THEN Append(F[n - 1], ts[n]) ELSE F[n - 1]
    IN  F[Len(ts)]

\* C19: with the archive toggle off, under every group selection, the two
\* lists together hold exactly the tasks that are not archived, are open or
\* were completed on the current day, and belong to the selected group if one
\* is selected; Completed-today holds those of them that are completed and
\* Active the others; so a task just archived by toggleArchive is in neither
\* list, and neither is a task completed on an earlier day.
C19_DisplayedSet ==
    \A g \in Groups \cup {NULL} :
        LET shown(t) == /\ ~t.archived
                        /\ ~t.completed
                           \/ (t.completed_at # NULL /\ Day(t.completed_at) = Day(now))
                        /\ g = NULL \/ t.group_id = g
            isDone(t) == shown(t) /\ t.completed
            isOpen(t) == shown(t) /\ ~t.completed
            active == activeTodos(todos, FALSE, g, now)
            done == completedTodos(todos, FALSE, g, now)
        IN  /\ filteredTodos(todos, FALSE, g, now) = Kept(todos, shown)
            /\ active = Kept(todos, isOpen)
            /\ done = Kept(todos, isDone)
            /\ \A i \in DOMAIN todos :
                  (\/ todos[i].archived
                   \/ (todos[i].completed /\ todos[i].completed_at # NULL
                          /\ Day(todos[i].completed_at) < Day(now))) =>
                      /\ \A j \in DOMAIN active : active[j] # todos[i]
                      /\ \A j \in DOMAIN done : done[j] # todos[i]

C19_Witness ==
    /\ page = "Dashboard" /\ last.op = "toggleArchive"
    /\ \E i \in DOMAIN todos :
          /\ todos[i].id = last.id /\ todos[i].archived /\ ~last.rec.archived
          /\ todos[i].completed /\ SameDay(todos[i].completed_at, now)
    /\ \E i \in DOMAIN last.pre :
          completedTodos(last.pre, FALSE, selectedGroup, now)
              = <<last.pre[i]>> /\ last.pre[i].id = last.id

\* C20: with the archive toggle on, the list of Dashboard.tsx holds exactly the
\* archived tasks of the selected group (every archived task when no group is
\* selected), whatever their completed and completed_at.
C20_ArchivedByGroup ==
    page = "Dashboard" =>
        LET archivedInGroup(t) ==
                /\ t.archived
                /\ selectedGroup = NULL \/ t.group_id = selectedGroup
        IN  filteredTodos(todos, TRUE, selectedGroup, now)
                = Kept(todos, archivedInGroup)

\* C21: the deadline addTodo sends is, read in the user's time zone, 09:00 of
\* the next day when the field held the next day at 00:00, and the reading of
\* the field in every other case; it is null exactly when the field was empty.
C21_DeadlineRule ==
    \A k \in DOMAIN calls :
        calls[k].kind = "addTodo" =>
            LET v == calls[k].arg
                stored == calls[k].rec.deadline
                tomorrow == Day(calls[k].at) + 1
            IN  IF v = NULL THEN stored = NULL
                ELSE /\ stored # NULL
                     /\ stored - TimezoneOffset =
                           IF v = tomorrow * SlotsPerDay
                           THEN tomorrow * SlotsPerDay + 18
                           ELSE v

\* the histogram's count for a day
ActivityCount(d) == IF d \in DOMAIN activityData THEN activityData[d] ELSE 0

\* C22: on the archive page the histogram's count for every day is the number
\* of archived records of the collection created on that day.
C22_HistogramCurrent ==
    page = "Archive" =>
        \A d \in 0..Day(MaxNow) :
            ActivityCount(d) =
                Cardinality({i \in DOMAIN todos :
                                todos[i].archived /\ Day(todos[i].created_at) = d})

\* C23: every record addTodo of Dashboard.tsx builds has the id of a group of
\* the local group collection as its group_id, at the moment it is built.
C23_GroupOfCollection ==
    [][(/\ page = "Dashboard" /\ Len(calls') = Len(calls) + 1
        /\ calls'[Len(calls')].kind = "addTodo")
          => calls'[Len(calls')].rec.group_id \in GroupIds(groups)]_vars

\* C24: the local group collection never holds two groups with is_default
\* true, whatever groups addGroup has added to the one default that was loaded.
C24_OneDefault ==
    Cardinality({g \in groups : g.is_default}) <= 1

C24_Witness ==
    /\ last.op = "addGroup"
    /\ \E g \in groups : g.is_default
    /\ \E g \in groups : g.id = last.id /\ g \notin SeedGroups

\* C25: a select is sent, and a channel opened, only in a step that ends with
\* a user id present; so no select and no channel carries an absent id.
C25_NoQueryWithoutUser ==
    /\ [][(\/ load'.st = "sent" /\ load.st # "sent"
           \/ subs' # subs /\ Len(subs') >= Len(subs))
             => user' # NULL]_vars
    /\ [](/\ load.st = "sent" => load.user # NULL
          /\ \A i \in DOMAIN subs : subs[i] # NULL)

C25_Witness ==
    /\ last.op = "signOut"
    /\ user # NULL /\ mounted
    /\ load.st = "sent" /\ load.user = user

\* the load was stored, no call is in flight, no event is on its way
Quiescent ==
    /\ page \in Pages /\ mounted
    /\ load.st = "done" /\ calls = <<>> /\ channel = <<>>

\* C26: at rest the collection holds the user's rows of the remote store: every
\* row once, with the store's field values, and nothing else.
C26_Converged ==
    Quiescent =>
        /\ \A r \in db :
              r.user_id = user =>
                  /\ Count(todos, r.id) = 1
                  /\ \E i \in DOMAIN todos : todos[i] = r
        /\ \A i \in DOMAIN todos : todos[i] \in db /\ todos[i].user_id = user

\* C27: when the result of the select is stored over a collection an event
\* was last applied to, and the store still is as the event said, the
\* collection keeps what the event brought: the inserted or updated row is in
\* it, the deleted one is not.
C27_EventSurvivesLoad ==
    [][(/\ load.st = "ok" /\ load'.st = "done" /\ last.op \in EventOps)
          => CASE last.op = "INSERT" ->
                    last.rec \in db =>
                        \E i \in DOMAIN todos' : todos'[i] = last.rec
               [] last.op = "UPDATE" ->
                    last.rec \in db =>
                        \E i \in DOMAIN todos' : todos'[i] = last.rec
               [] last.op = "DELETE" ->
                    ~HasRow(last.id) => ~Has(todos', last.id)]_vars

\* C28: after the rollback of a failed deleteTodo of part_002 the records of
\* the other tasks are those the collection held just before the rollback.
C28_RollbackKeepsOthers ==
    (page = "part_002" /\ last.op = "deleteTodoError") =>
        Remove(todos, last.id) = Remove(last.pre, last.id)

\* C29: in Dashboard.tsx and Archive.tsx processing is true exactly while a
\* mutation's remote call is in flight (sent, or answered and not yet handled),
\* so it is false again once the mutation has ended, in success or in failure.
C29_ProcessingTracksCalls ==
    page \in {"Dashboard", "Archive"} => processing = (calls # <<>>)

C29_Witness ==
    /\ page \in {"Dashboard", "Archive"}
    /\ last.op \in ErrorOps \cup {"addGroupError"}
    /\ ~processing /\ calls = <<>>

\* the steps in which a toggle writes to the collection: the success handler
\* of Dashboard.tsx, the optimistic write and the rollback of part_002
ToggleOps == {"toggleTodo", "togglePriority", "toggleArchive",
              "toggleTodoError", "togglePriorityError"}

\* record b with the fields the toggle may write taken from record a
Untoggled(op, a, b) ==
    CASE op \in {"toggleTodo", "toggleTodoError"} ->
            [b EXCEPT !.completed = a.completed, !.completed_at = a.completed_at]
      [] op \in {"togglePriority", "togglePriorityError"} ->
            [b EXCEPT !.priority = a.priority]
      [] op = "toggleArchive" -> [b EXCEPT !.archived = a.archived]

\* C30: a step in which toggleTodo, togglePriority or toggleArchive writes to
\* the collection keeps its length and order, leaves every record with another
\* id as it was, changes at most completed and completed_at, priority, or
\* archived of the records with the toggled id, leaves the group collection
\* alone, and changes nothing when no record has the id.
C30_ToggleFrame ==
    [][(last' # last /\ last'.op \in ToggleOps) =>
          /\ Len(todos') = Len(todos)
          /\ \A i \in DOMAIN todos :
                IF todos[i].id = last'.id
                THEN Untoggled(last'.op, todos[i], todos'[i]) = todos[i]
                ELSE todos'[i] = todos[i]
          /\ groups' = groups
          /\ ~Has(todos, last'.id) => todos' = todos]_vars

C30_Witness ==
    /\ last.op \in {"toggleTodo", "togglePriority", "toggleArchive"}
    /\ last.was # <<>> /\ Has(last.was, last.id)
    /\ ~Has(last.pre, last.id)
    /\ todos = last.pre

====
